---- MODULE Spec2Model ----
(***************************************************************************)
(* The install command of cli.py: cross-compile the project files into the *)
(* scratch directory, render the manifest, probe the board, transfer the   *)
(* files the board reports as changed, remove the scratch directory, write *)
(* main.py and optionally the auto-start entry.                            *)
(*                                                                         *)
(* A path is a record [dir, name]: dir is the sequence of directory        *)
(* components, name is the file name split at ".", i.e. name.split(".").   *)
(* So "drv.v2.py" is <<"drv", "v2", "py">> and ".py" is <<"", "py">>.      *)
(***************************************************************************)
EXTENDS Integers, Sequences, FiniteSets, TLC

VARIABLES
    files,          \* host file system: content of each candidate source file
    compiled_dir,   \* host file system: COMPILE_DIR, [exists, files]
    autostart,      \* host file system: AUTO_START_PATH has been written
    devFiles,       \* board file system: device path -> bytes
    devHash,        \* board: persisted record device path -> last hash
    pc,             \* per invocation: position in install()
    force,          \* per invocation: the --force flag
    PROJECT_FILES,  \* per invocation: module constant, paths found at import
    project_files,  \* per invocation: the File descriptors built so far
    mpy_code,       \* per invocation: the rendered manifest
    code_output,    \* per invocation: tokens printed by the board
    board_order,    \* per invocation: order the board iterated the files in
    idx,            \* per invocation: position of the running for-loop
    failed,         \* per invocation: an exception is propagating / propagated
    ops,            \* per invocation: transport commands issued by this run
    last_run,       \* how the last run ended; project unchanged since then
    runs,           \* number of invocations started
    edits           \* number of edits made to the project

vars == <<files, compiled_dir, autostart, devFiles, devHash, pc, force,
          PROJECT_FILES, project_files, mpy_code, code_output, board_order,
          idx, failed, ops, last_run, runs, edits>>

(***************************************************************************)
(* Bounds of the model.                                                    *)
(***************************************************************************)
MaxRuns == 2
MaxEdits == 1

Procs == {1, 2}

(***************************************************************************)
(* Paths (cli.py lines 14-20).                                             *)
(***************************************************************************)
ROOT == <<"home", "proj">>
THIS_DIR == ROOT \o <<"pkg">>
MPY_DIR == THIS_DIR \o <<"micropython">>
COMMON_DIR == THIS_DIR \o <<"common">>

\* The *.py files that may exist below MPY_DIR and COMMON_DIR, in the order
\* [*MPY_DIR.rglob("*.py"), *COMMON_DIR.rglob("*.py")] lists them: two files
\* with the same base name in different directories, and a file named ".py".
SrcFiles ==
    << [dir |-> MPY_DIR,    name |-> <<"drv", "v2", "py">>],
       [dir |-> COMMON_DIR, name |-> <<"drv", "v2", "py">>],
       [dir |-> COMMON_DIR, name |-> <<"", "py">>] >>

FileIds == 1..Len(SrcFiles)

Absent == "absent"
Good == {"v1", "v1c", "v2"}
Contents == Good \cup {"bad"}

NoFile == "nofile"
NoHash == "nohash"
Boot == "import pkg.micropython.pkg"

\* PurePath.suffix: the last "."-component of the name when the dot is
\* neither the first nor the last character of the name.
Suffix(name) ==
    IF Len(name) >= 2 /\ name[Len(name)] # ""
       /\ (Len(name) > 2 \/ name[1] # "")
    THEN <<name[Len(name)]>>
    ELSE <<>>

\* PurePath.with_suffix
with_suffix(path, suffix) ==
    [path EXCEPT !.name =
        IF Suffix(path.name) = <<>>
        THEN path.name \o suffix
        ELSE SubSeq(path.name, 1, Len(path.name) - 1) \o suffix]

\* PurePath.relative_to
relative_to(dir, base) == SubSeq(dir, Len(base) + 1, Len(dir))

\* ".".join(input_path.name.split(".")[:-1]) + ".mpy"
OutputName(name) ==
    IF Len(name) = 1 THEN <<"", "mpy">>
    ELSE SubSeq(name, 1, Len(name) - 1) \o <<"mpy">>

\* The cross compiler: exit status and output bytes for a source content.
\* Two sources that differ only in a comment ("v1", "v1c") compile to the
\* same bytes.
MpyCrossStatus(content) == IF content \in Good THEN 0 ELSE 1

MpyCrossOutput(content) == IF content = "v2" THEN "B2" ELSE "B1"

Bytes == {"B1", "B2"}

\* hashlib.sha1(...).digest(): injective on the model's byte strings
sha1(data) == "sha1:" \o data

(***************************************************************************)
(* cross_compile and the File descriptor (cli.py lines 59-85).             *)
(***************************************************************************)
ArtNames == {OutputName(SrcFiles[f].name) : f \in FileIds}

EmptyDir == [n \in ArtNames |-> NoFile]

\* shutil.rmtree(COMPILE_DIR, ignore_errors=True)
clean_compiled(d) == [exists |-> FALSE, files |-> EmptyDir]

\* mpy_cross.run(input_path, "-o", output_path): the compiler cannot write
\* into a directory that does not exist.
CompileStatus(d, content) ==
    IF d.exists THEN MpyCrossStatus(content) ELSE 1

\* faulty variant: the exit status of the compiler is not looked at
CompileFails_Never(status) == FALSE

\* if mpy_cross_process.wait() == 0: return output_path / else: exit(...)
CompileFails(status) == status # 0

\* faulty variant: the source file is hashed
FileHash_OfSource(source, artifact) == sha1(source)

\* with open(self.path_compiled, "rb") as fp: sha1(fp.read()).digest()
FileHash(source, artifact) == sha1(artifact)

path_on_board(path, path_compiled) ==
    with_suffix([dir |-> relative_to(path.dir, ROOT), name |-> path.name],
                Suffix(path_compiled))

dir_path_on_board(path) == relative_to(path.dir, ROOT)

\* File.__init__ after a successful cross_compile; d is COMPILE_DIR with
\* the artifact written.
File(f, d) ==
    LET path == SrcFiles[f]
        out == OutputName(path.name)
    IN  [path |-> path,
         path_compiled |-> out,
         hash |-> FileHash(files[f], d.files[out]),
         path_on_board |-> path_on_board(path, out),
         dir_path_on_board |-> dir_path_on_board(path)]

\* create_mpy_code: the three sets handed to the template
create_mpy_code(descs) ==
    [required_dirs |-> {descs[i].dir_path_on_board : i \in DOMAIN descs},
     required_files |-> {descs[i].path_on_board : i \in DOMAIN descs},
     required_files_with_hash |->
        {<<descs[i].path_on_board, descs[i].hash>> : i \in DOMAIN descs}]

NoManifest ==
    [required_dirs |-> {}, required_files |-> {},
     required_files_with_hash |-> {}]

MainPy == [dir |-> <<>>, name |-> <<"main", "py">>]

DevPaths ==
    {path_on_board(SrcFiles[f], OutputName(SrcFiles[f].name)) : f \in FileIds}
    \cup {MainPy}

(***************************************************************************)
(* The program rendered from mpy_worker.py, run on the board: remove what  *)
(* is not required (the bootstrap file excepted), compare each required    *)
(* file's hash with the persisted record, record the new hashes and print  *)
(* one flag per required file in the order the board iterates them.        *)
(***************************************************************************)
HashOf(m, q) ==
    (CHOOSE pr \in m.required_files_with_hash : pr[1] = q)[2]

\* every order in which a set can be iterated
Orders(S) ==
    {o \in [1..Cardinality(S) -> S] :
        \A i, j \in 1..Cardinality(S) : o[i] = o[j] => i = j}

BoardFlags(m, order, rec) ==
    [i \in 1..Len(order) |->
        IF rec[order[i]] = HashOf(m, order[i]) THEN "0" ELSE "1"]

BoardFiles(m, fs) ==
    [q \in DevPaths |->
        IF q \in m.required_files \cup {MainPy} THEN fs[q] ELSE NoFile]

BoardRecord(m) ==
    [q \in DevPaths |->
        IF q \in m.required_files THEN HashOf(m, q) ELSE NoHash]

(***************************************************************************)
(* install (cli.py lines 111-167), one action per step of the handler.     *)
(***************************************************************************)
Terminal == {"Done", "Aborted"}
Free == {"Idle"} \cup Terminal

\* [*MPY_DIR.rglob("*.py"), *COMMON_DIR.rglob("*.py")]
RGlob ==
    LET present == {f \in FileIds : files[f] # Absent}
        F[i \in 0..Len(SrcFiles)] ==
            IF i = 0 THEN <<>>
            ELSE IF i \in present THEN Append(F[i - 1], i) ELSE F[i - 1]
    IN  F[Len(SrcFiles)]

\* int(did_change)
int(token) == IF token = "0" THEN 0 ELSE 1

\* faulty variant: the force flag is not consulted
ShouldTransfer_IgnoresForce(did_change, forced) == int(did_change) # 0

\* faulty variant: the flag is not consulted
ShouldTransfer_Always(did_change, forced) == TRUE

\* faulty variant: the flag is read the wrong way round
ShouldTransfer_Inverted(did_change, forced) == int(did_change) = 0 \/ forced

\* if int(did_change) or force:
ShouldTransfer(did_change, forced) == int(did_change) # 0 \/ forced

\* faulty variant: the last token of the output is dropped
ZipLen_DropsLast(descs, tokens) ==
    IF Len(descs) < Len(tokens) THEN Len(descs)
    ELSE IF Len(tokens) = 0 THEN 0 ELSE Len(tokens) - 1

\* zip(project_files, code_output.strip().split()) stops at the shorter one
ZipLen(descs, tokens) ==
    IF Len(descs) <= Len(tokens) THEN Len(descs) ELSE Len(tokens)

\* faulty variant: the finally block swallows the exception
AfterCleanup_Swallows(propagating) == "Configuring"

\* finally: clean_compiled(), then the exception propagates or install
\* goes on to configure main.py
AfterCleanup(propagating) == IF propagating THEN "Aborted" ELSE "Configuring"

NoPath == [dir |-> <<>>, name |-> <<>>]

Op(kind, target, ok) == [op |-> kind, to |-> target, ok |-> ok]

Ended(p, outcome) ==
    last_run' = [outcome |-> outcome, unchanged |-> TRUE]

\* faulty variant: no finally, the exception leaves install at once
Raise_NoFinally(p) ==
    /\ pc' = [pc EXCEPT ![p] = "Aborted"]
    /\ failed' = [failed EXCEPT ![p] = TRUE]

\* An exception raised inside the try block: control goes to the finally.
Raise(p) ==
    /\ pc' = [pc EXCEPT ![p] = "Cleanup"]
    /\ failed' = [failed EXCEPT ![p] = TRUE]

\* Starting the program: the module is imported (lines 14-36), which lists
\* the project files and runs clean_compiled(); click parses --force.
Load(p) ==
    /\ pc[p] \in Free
    /\ runs < MaxRuns
    /\ runs' = runs + 1
    /\ PROJECT_FILES' = [PROJECT_FILES EXCEPT ![p] = RGlob]
    /\ compiled_dir' = clean_compiled(compiled_dir)
    /\ \E f \in BOOLEAN : force' = [force EXCEPT ![p] = f]
    /\ pc' = [pc EXCEPT ![p] = "Init"]
    /\ project_files' = [project_files EXCEPT ![p] = <<>>]
    /\ mpy_code' = [mpy_code EXCEPT ![p] = NoManifest]
    /\ code_output' = [code_output EXCEPT ![p] = <<>>]
    /\ board_order' = [board_order EXCEPT ![p] = <<>>]
    /\ idx' = [idx EXCEPT ![p] = 1]
    /\ failed' = [failed EXCEPT ![p] = FALSE]
    /\ ops' = [ops EXCEPT ![p] = <<>>]
    /\ UNCHANGED <<files, autostart, devFiles, devHash, last_run, edits>>

\* COMPILE_DIR.mkdir(): FileExistsError when the directory exists
Mkdir(p) ==
    /\ pc[p] = "Init"
    /\ IF compiled_dir.exists
       THEN /\ Raise(p)
            /\ UNCHANGED compiled_dir
       ELSE /\ compiled_dir' = [exists |-> TRUE, files |-> EmptyDir]
            /\ pc' = [pc EXCEPT ![p] = "Compiling"]
            /\ UNCHANGED failed
    /\ UNCHANGED <<files, autostart, devFiles, devHash, force, PROJECT_FILES,
                   project_files, mpy_code, code_output, board_order, idx,
                   ops, last_run, runs, edits>>

\* One round of [File(file_path) for file_path in PROJECT_FILES]
Compile(p) ==
    /\ pc[p] = "Compiling"
    /\ idx[p] <= Len(PROJECT_FILES[p])
    /\ LET f == PROJECT_FILES[p][idx[p]]
           out == OutputName(SrcFiles[f].name)
           content == files[f]
           status == IF content = Absent THEN 1
                     ELSE CompileStatus(compiled_dir, content)
           written == IF status = 0
                      THEN [compiled_dir EXCEPT
                                !.files[out] = MpyCrossOutput(content)]
                      ELSE compiled_dir
       IN  IF CompileFails(status) \/ written.files[out] = NoFile
           THEN /\ Raise(p)
                /\ UNCHANGED <<compiled_dir, project_files, idx>>
           ELSE /\ compiled_dir' = written
                /\ project_files' =
                      [project_files EXCEPT ![p] = Append(@, File(f, written))]
                /\ idx' = [idx EXCEPT ![p] = @ + 1]
                /\ UNCHANGED <<pc, failed>>
    /\ UNCHANGED <<files, autostart, devFiles, devHash, force, PROJECT_FILES,
                   mpy_code, code_output, board_order, ops, last_run, runs,
                   edits>>

\* The list is complete.
Compiled(p) ==
    /\ pc[p] = "Compiling"
    /\ idx[p] > Len(PROJECT_FILES[p])
    /\ pc' = [pc EXCEPT ![p] = "Manifesting"]
    /\ UNCHANGED <<files, compiled_dir, autostart, devFiles, devHash, force,
                   PROJECT_FILES, project_files, mpy_code, code_output,
                   board_order, idx, failed, ops, last_run, runs, edits>>

\* mpy_code = create_mpy_code(project_files)
Manifest(p) ==
    /\ pc[p] = "Manifesting"
    /\ mpy_code' = [mpy_code EXCEPT ![p] = create_mpy_code(project_files[p])]
    /\ pc' = [pc EXCEPT ![p] = "Probing"]
    /\ UNCHANGED <<files, compiled_dir, autostart, devFiles, devHash, force,
                   PROJECT_FILES, project_files, code_output, board_order,
                   idx, failed, ops, last_run, runs, edits>>

\* code_output = run_code_on_board(port, mpy_code): the transport fails, or
\* the board runs the program, iterating the required files in some order.
Probe(p) ==
    /\ pc[p] = "Probing"
    /\ \/ /\ Raise(p)
          /\ ops' = [ops EXCEPT ![p] = Append(@, Op("run", NoPath, FALSE))]
          /\ UNCHANGED <<devFiles, devHash, code_output, board_order, idx>>
       \/ \E order \in Orders(mpy_code[p].required_files) :
            /\ board_order' = [board_order EXCEPT ![p] = order]
            /\ code_output' =
                 [code_output EXCEPT
                     ![p] = BoardFlags(mpy_code[p], order, devHash)]
            /\ devFiles' = BoardFiles(mpy_code[p], devFiles)
            /\ devHash' = BoardRecord(mpy_code[p])
            /\ ops' = [ops EXCEPT ![p] = Append(@, Op("run", NoPath, TRUE))]
            /\ idx' = [idx EXCEPT ![p] = 1]
            /\ pc' = [pc EXCEPT ![p] = "Transferring"]
            /\ UNCHANGED failed
    /\ UNCHANGED <<files, compiled_dir, autostart, force, PROJECT_FILES,
                   project_files, mpy_code, last_run, runs, edits>>

\* One round of the for loop over zip(project_files, flags)
Transfer(p) ==
    /\ pc[p] = "Transferring"
    /\ idx[p] <= ZipLen(project_files[p], code_output[p])
    /\ LET file == project_files[p][idx[p]]
           did_change == code_output[p][idx[p]]
           local == compiled_dir.files[file.path_compiled]
       IN  IF ShouldTransfer(did_change, force[p])
           THEN \/ /\ local # NoFile
                   /\ devFiles' =
                        [devFiles EXCEPT ![file.path_on_board] = local]
                   /\ ops' = [ops EXCEPT ![p] =
                                Append(@, Op("put", file.path_on_board, TRUE))]
                   /\ idx' = [idx EXCEPT ![p] = @ + 1]
                   /\ UNCHANGED <<pc, failed>>
                \/ /\ Raise(p)
                   /\ ops' = [ops EXCEPT ![p] =
                                Append(@, Op("put", file.path_on_board, FALSE))]
                   /\ UNCHANGED <<devFiles, idx>>
           ELSE /\ idx' = [idx EXCEPT ![p] = @ + 1]
                /\ UNCHANGED <<devFiles, ops, pc, failed>>
    /\ UNCHANGED <<files, compiled_dir, autostart, devHash, force,
                   PROJECT_FILES, project_files, mpy_code, code_output,
                   board_order, last_run, runs, edits>>

\* The for loop is exhausted: the try block ends.
Transferred(p) ==
    /\ pc[p] = "Transferring"
    /\ idx[p] > ZipLen(project_files[p], code_output[p])
    /\ pc' = [pc EXCEPT ![p] = "Cleanup"]
    /\ UNCHANGED <<files, compiled_dir, autostart, devFiles, devHash, force,
                   PROJECT_FILES, project_files, mpy_code, code_output,
                   board_order, idx, failed, ops, last_run, runs, edits>>

\* finally: clean_compiled()
Cleanup(p) ==
    /\ pc[p] = "Cleanup"
    /\ compiled_dir' = clean_compiled(compiled_dir)
    /\ pc' = [pc EXCEPT ![p] = AfterCleanup(failed[p])]
    /\ IF failed[p] THEN Ended(p, "Aborted") ELSE UNCHANGED last_run
    /\ UNCHANGED <<files, autostart, devFiles, devHash, force, PROJECT_FILES,
                   project_files, mpy_code, code_output, board_order, idx,
                   failed, ops, runs, edits>>

\* faulty variant: main.py is written again
AfterConfigure_Again == "Configuring"

\* after save_code_on_board has returned, install asks about auto-start
AfterConfigure == "Confirm"

\* save_code_on_board(port, "import ...", "main.py")
Configure(p) ==
    /\ pc[p] = "Configuring"
    /\ \/ /\ devFiles' = [devFiles EXCEPT ![MainPy] = Boot]
          /\ ops' = [ops EXCEPT ![p] = Append(@, Op("put", MainPy, TRUE))]
          /\ pc' = [pc EXCEPT ![p] = AfterConfigure]
          /\ UNCHANGED <<failed, last_run>>
       \/ /\ ops' = [ops EXCEPT ![p] = Append(@, Op("put", MainPy, FALSE))]
          /\ pc' = [pc EXCEPT ![p] = "Aborted"]
          /\ failed' = [failed EXCEPT ![p] = TRUE]
          /\ Ended(p, "Aborted")
          /\ UNCHANGED devFiles
    /\ UNCHANGED <<files, compiled_dir, autostart, devHash, force,
                   PROJECT_FILES, project_files, mpy_code, code_output,
                   board_order, idx, runs, edits>>

\* if click.confirm(...): write AUTO_START_FILE; print("Done!")
Confirm(p) ==
    /\ pc[p] = "Confirm"
    /\ \E yes \in BOOLEAN : autostart' = (autostart \/ yes)
    /\ pc' = [pc EXCEPT ![p] = "Done"]
    /\ Ended(p, "Done")
    /\ UNCHANGED <<files, compiled_dir, devFiles, devHash, force,
                   PROJECT_FILES, project_files, mpy_code, code_output,
                   board_order, idx, failed, ops, runs, edits>>

\* The developer edits a project file between two invocations.
Edit(f, c) ==
    /\ \A p \in Procs : pc[p] \in Free
    /\ edits < MaxEdits
    /\ runs < MaxRuns
    /\ files[f] # c
    /\ files' = [files EXCEPT ![f] = c]
    /\ edits' = edits + 1
    /\ last_run' = [last_run EXCEPT !.unchanged = FALSE]
    /\ UNCHANGED <<compiled_dir, autostart, devFiles, devHash, pc, force,
                   PROJECT_FILES, project_files, mpy_code, code_output,
                   board_order, idx, failed, ops, runs>>

InitWith(initial) ==
    /\ files \in [FileIds -> initial]
    /\ \E stale \in BOOLEAN :
          compiled_dir = [exists |-> stale, files |-> EmptyDir]
    /\ autostart = FALSE
    /\ devFiles = [q \in DevPaths |-> NoFile]
    /\ devHash = [q \in DevPaths |-> NoHash]
    /\ pc = [p \in Procs |-> "Idle"]
    /\ force = [p \in Procs |-> FALSE]
    /\ PROJECT_FILES = [p \in Procs |-> <<>>]
    /\ project_files = [p \in Procs |-> <<>>]
    /\ mpy_code = [p \in Procs |-> NoManifest]
    /\ code_output = [p \in Procs |-> <<>>]
    /\ board_order = [p \in Procs |-> <<>>]
    /\ idx = [p \in Procs |-> 1]
    /\ failed = [p \in Procs |-> FALSE]
    /\ ops = [p \in Procs |-> <<>>]
    /\ last_run = [outcome |-> "none", unchanged |-> FALSE]
    /\ runs = 0
    /\ edits = 0

Init == InitWith({Absent, "v1"})

Step(p) ==
    \/ Mkdir(p)
    \/ Compile(p)
    \/ Compiled(p)
    \/ Manifest(p)
    \/ Probe(p)
    \/ Transfer(p)
    \/ Transferred(p)
    \/ Cleanup(p)
    \/ Configure(p)
    \/ Confirm(p)

\* One invocation at a time, as the program is meant to be used.
Start(p) ==
    /\ \A q \in Procs : pc[q] \in Free
    /\ Load(p)

Next ==
    \/ \E p \in {1} : Start(p)
    \/ \E p \in Procs : Step(p)
    \/ \E f \in FileIds, c \in Contents \cup {Absent} : Edit(f, c)

Spec == Init /\ [][Next]_vars

\* Invocations started while another one is running in the same directory.
NextConc ==
    \/ \E p \in Procs : Load(p)
    \/ \E p \in Procs : Step(p)

InitConc == InitWith({Absent, "v1", "bad"})

SpecConc == InitConc /\ [][NextConc]_vars

\* every output of at most n tokens
Outputs(n) == UNION {[1..k -> {"0", "1"}] : k \in 0..n}

\* code_output = run_code_on_board(port, mpy_code) with a board that does
\* not print one flag per required file: install takes whatever tokens
\* come back.
ProbeMismatch(p) ==
    /\ pc[p] = "Probing"
    /\ \E out \in Outputs(Len(project_files[p]) + 1) :
          /\ Len(out) # Len(project_files[p])
          /\ code_output' = [code_output EXCEPT ![p] = out]
    /\ board_order' = [board_order EXCEPT ![p] = <<>>]
    /\ devFiles' = BoardFiles(mpy_code[p], devFiles)
    /\ devHash' = BoardRecord(mpy_code[p])
    /\ ops' = [ops EXCEPT ![p] = Append(@, Op("run", NoPath, TRUE))]
    /\ idx' = [idx EXCEPT ![p] = 1]
    /\ pc' = [pc EXCEPT ![p] = "Transferring"]
    /\ UNCHANGED <<files, compiled_dir, autostart, force, PROJECT_FILES,
                   project_files, mpy_code, failed, last_run, runs, edits>>

NextMismatch ==
    \/ \E p \in {1} : Start(p)
    \/ \E p \in Procs : Step(p)
    \/ \E p \in Procs : ProbeMismatch(p)

\* The same program with a board that may break the contract on the number
\* of flags.
SpecMismatch == Init /\ [][NextMismatch]_vars

\* Every call install makes returns, with a result or an exception, so a
\* run that can take its next step takes it.
SpecFair == Spec /\ \A p \in Procs : WF_vars(Step(p))

(***************************************************************************)
(* Vocabulary of the properties.                                           *)
(***************************************************************************)
\* the device paths this run has put successfully, one entry per put
Puts(p) ==
    SelectSeq(ops[p], LAMBDA o : o.op = "put" /\ o.ok /\ o.to # MainPy)

PutSet(p) == {Puts(p)[k].to : k \in DOMAIN Puts(p)}

PutCount(p, q) == Cardinality({k \in DOMAIN Puts(p) : Puts(p)[k].to = q})

\* the for loop of this run has run to its end
LoopDone(p) ==
    \/ pc[p] \in {"Configuring", "Confirm", "Done"}
    \/ pc[p] = "Cleanup" /\ ~failed[p]

\* the project is as this run compiles it, or compiled it: files are
\* edited between runs only
SameFiles(p) == pc[p] \notin Free \/ (pc[p] \in Terminal /\ last_run.unchanged)

\* C1: with --force, a run whose transfer loop has ended has put every
\* project file exactly once, and no run with --force puts a file twice.
C1_ForceTransfersAllOnce ==
    \A p \in Procs :
        force[p] =>
            /\ \A q \in DevPaths : PutCount(p, q) <= 1
            /\ LoopDone(p) =>
                 /\ Len(project_files[p]) = Len(PROJECT_FILES[p])
                 /\ \A i \in DOMAIN project_files[p] :
                        PutCount(p, project_files[p][i].path_on_board) = 1

\* a forced run has ended with two files of which the board reported one
\* as unchanged
C1_Witness ==
    /\ pc[1] = "Done"
    /\ force[1]
    /\ Len(PROJECT_FILES[1]) >= 2
    /\ \E i, j \in DOMAIN code_output[1] :
          code_output[1][i] = "0" /\ code_output[1][j] = "1"

\* C2: in a run without --force whose transfer loop has ended, the files
\* put are exactly the files the board found new or changed.
C2_TransfersExactlyChanged ==
    \A p \in Procs :
        (~force[p] /\ LoopDone(p)) =>
            PutSet(p) = {board_order[p][i] : i \in
                            {j \in DOMAIN code_output[p] :
                                code_output[p][j] = "1"}}

AllUnchanged(tokens) == \A i \in DOMAIN tokens : tokens[i] = "0"

\* C3: when the board's record of every required file equals the hash in
\* the manifest, the probe reports no file as changed, and a run without
\* --force that was told so puts no file.
C3_UnchangedTransfersNothing ==
    [][\A p \in Procs :
        /\ ( /\ pc[p] = "Probing"
             /\ pc'[p] = "Transferring"
             /\ \A q \in mpy_code[p].required_files :
                    devHash[q] = HashOf(mpy_code[p], q) )
           => AllUnchanged(code_output'[p])
        /\ ( /\ ~force'[p]
             /\ AllUnchanged(code_output'[p]) )
           => Puts(p)' = <<>>
      ]_vars

\* a run without --force, after a run that was aborted once the board had
\* recorded the hashes, has finished its loop over two unchanged files
C3_Witness ==
    /\ pc[1] = "Confirm"
    /\ ~force[1]
    /\ last_run.outcome = "Aborted"
    /\ Len(code_output[1]) >= 2
    /\ Len(project_files[1]) >= 2
    /\ AllUnchanged(code_output[1])
    /\ Puts(1) = <<>>

\* C4: a run without --force that follows a run that ended Done, on the
\* same project content, puts no file.
C4_SecondRunTransfersNothing ==
    \A p \in Procs :
        ( /\ pc[p] \notin Free
          /\ ~force[p]
          /\ last_run.outcome = "Done"
          /\ last_run.unchanged )
        => Puts(p) = <<>>

\* the second of two runs on the same three files is about to end
C4_Witness ==
    /\ pc[1] = "Confirm"
    /\ ~force[1]
    /\ last_run.outcome = "Done"
    /\ last_run.unchanged
    /\ Len(project_files[1]) = 3
    /\ runs = 2

\* C5: whenever no run is in progress and a run has ended, however it
\* ended, the scratch directory does not exist.
C5_CleanupAlways ==
    ( /\ \A p \in Procs : pc[p] \in Free
      /\ \E p \in Procs : pc[p] \in Terminal )
    => ~compiled_dir.exists

\* one run was refused at Init and one was aborted by a failing transfer
C5_Witness ==
    /\ pc[1] = "Aborted" /\ pc[2] = "Aborted"
    /\ ops[1] = <<>> /\ project_files[1] = <<>>
    /\ Len(PROJECT_FILES[1]) >= 1
    /\ Len(ops[2]) >= 2
    /\ ~ops[2][Len(ops[2])].ok
    /\ ops[2][Len(ops[2])].to # MainPy

\* the positions of the project files the compiler rejects
BadAt(p) ==
    {k \in DOMAIN PROJECT_FILES[p] : files[PROJECT_FILES[p][k]] = "bad"}

FirstBad(p) == CHOOSE k \in BadAt(p) : \A j \in BadAt(p) : k <= j

\* C6: when the compiler fails on the k-th project file, the run builds no
\* descriptor from the k-th file on, issues no transport command at all,
\* ends Aborted and leaves no scratch directory.
C6_CompileFailureAborts ==
    \A p \in Procs :
        (SameFiles(p) /\ BadAt(p) # {}) =>
            /\ Len(project_files[p]) < FirstBad(p)
            /\ idx[p] <= FirstBad(p)
            /\ ops[p] = <<>>
            /\ pc[p] \in {"Init", "Compiling", "Cleanup", "Aborted"}
            /\ pc[p] = "Cleanup" => failed[p]
            /\ pc[p] = "Aborted" => ~compiled_dir.exists

\* the compiler failed on the second of three files
C6_Witness ==
    /\ pc[1] = "Aborted"
    /\ Len(PROJECT_FILES[1]) = 3
    /\ BadAt(1) = {2}
    /\ Len(project_files[1]) = 1

\* the compiled output of the i-th project file of a run
OutputOf(p, i) == MpyCrossOutput(files[PROJECT_FILES[p][i]])

\* C7: the hash of every descriptor is the sha1 of the compiled output of
\* its own source file, so two descriptors have the same hash exactly when
\* their compiled outputs are the same bytes.
C7_HashOfCompiledArtifact ==
    \A p \in Procs :
        SameFiles(p) =>
            \A i \in DOMAIN project_files[p] :
                /\ project_files[p][i].hash = sha1(OutputOf(p, i))
                /\ \A j \in DOMAIN project_files[p] :
                      (project_files[p][i].hash = project_files[p][j].hash)
                      <=> (OutputOf(p, i) = OutputOf(p, j))

\* two project files whose sources differ and whose compiled output is the
\* same bytes have been compiled
C7_Witness ==
    /\ pc[1] = "Manifesting"
    /\ \E i, j \in DOMAIN project_files[1] :
          /\ files[PROJECT_FILES[1][i]] = "v1"
          /\ files[PROJECT_FILES[1][j]] = "v1c"
          /\ project_files[1][i].hash = project_files[1][j].hash

\* the device path the claim describes: below the project root, the last
\* "."-component of the name replaced by the compiled extension
ExpectedOnBoard(path) ==
    [dir |-> SubSeq(path.dir, Len(ROOT) + 1, Len(path.dir)),
     name |-> SubSeq(path.name, 1, Len(path.name) - 1) \o <<"mpy">>]

\* C8: the device path of every descriptor is its source path relative to
\* the project root with the extension replaced by the compiled one, never
\* the source extension, and the device directory is the relative parent.
C8_DevicePath ==
    \A p \in Procs :
        \A i \in DOMAIN project_files[p] :
            LET d == project_files[p][i]
            IN  /\ d.path_on_board = ExpectedOnBoard(d.path)
                /\ d.path_on_board.name[Len(d.path_on_board.name)] # "py"
                /\ d.dir_path_on_board = ExpectedOnBoard(d.path).dir

\* the order of states as the claim gives it; the auto-start prompt counts
\* as the end of Configuring
ClaimedOrder ==
    {<<"Idle", "Init">>, <<"Done", "Init">>, <<"Aborted", "Init">>,
     <<"Init", "Compiling">>, <<"Compiling", "Manifesting">>,
     <<"Manifesting", "Probing">>, <<"Probing", "Transferring">>,
     <<"Transferring", "Configuring">>, <<"Configuring", "Confirm">>,
     <<"Configuring", "Cleanup">>, <<"Confirm", "Cleanup">>,
     <<"Cleanup", "Done">>, <<"Cleanup", "Aborted">>}
    \cup {<<s, "Cleanup">> : s \in {"Init", "Compiling", "Manifesting",
                                    "Probing", "Transferring"}}

\* C9 as claimed: a run moves through Init, Compiling, Manifesting,
\* Probing, Transferring, Configuring, Cleanup, Done, and from any state
\* to Cleanup and Aborted on a failure.
C9_ClaimedOrder ==
    [][\A p \in Procs :
          pc'[p] # pc[p] => <<pc[p], pc'[p]>> \in ClaimedOrder]_vars

\* the order of states in install: <<from, to, an exception propagates>>
ActualOrder ==
    {<<"Idle", "Init", FALSE>>, <<"Done", "Init", FALSE>>,
     <<"Aborted", "Init", FALSE>>,
     <<"Init", "Compiling", FALSE>>, <<"Init", "Cleanup", TRUE>>,
     <<"Compiling", "Manifesting", FALSE>>, <<"Compiling", "Cleanup", TRUE>>,
     <<"Manifesting", "Probing", FALSE>>,
     <<"Probing", "Transferring", FALSE>>, <<"Probing", "Cleanup", TRUE>>,
     <<"Transferring", "Cleanup", FALSE>>, <<"Transferring", "Cleanup", TRUE>>,
     <<"Cleanup", "Configuring", FALSE>>, <<"Cleanup", "Aborted", TRUE>>,
     <<"Configuring", "Confirm", FALSE>>, <<"Configuring", "Aborted", TRUE>>,
     <<"Confirm", "Done", FALSE>>}

\* C9 amended: a run moves through Init, Compiling, Manifesting, Probing,
\* Transferring, Cleanup, Configuring, Done; the scratch directory is gone
\* when Configuring begins; a failure up to Transferring leads to Cleanup
\* and Aborted, a failure in Configuring leads to Aborted at once.
C9_ActualOrder ==
    [][\A p \in Procs :
          pc'[p] # pc[p] =>
             /\ <<pc[p], pc'[p], failed'[p]>> \in ActualOrder
             /\ pc'[p] = "Configuring" => ~compiled_dir'.exists
             /\ (pc[p] = "Configuring" /\ pc'[p] = "Aborted")
                   => ~compiled_dir.exists
      ]_vars

\* a run went through every state and failed writing main.py
C9_Witness ==
    /\ pc[1] = "Aborted"
    /\ ops[1] # <<>>
    /\ ops[1][Len(ops[1])] = Op("put", MainPy, FALSE)
    /\ Len(project_files[1]) >= 1
    /\ ~compiled_dir.exists

\* a run is between Init and Cleanup: it has made the scratch directory
Between == {"Compiling", "Manifesting", "Probing", "Transferring"}

\* C10: two runs in the same working directory are never both between
\* Init and Cleanup.
C10_NoOverlap ==
    \A p, q \in Procs :
        (p # q /\ pc[p] \in Between) => pc[q] \notin Between

\* the board has answered the probe of this run
Probed(p) ==
    \E k \in DOMAIN ops[p] : ops[p][k].op = "run" /\ ops[p][k].ok

\* C11: once the board has answered, the host has as many flags as
\* descriptors and the i-th flag is the flag of the i-th descriptor.
C11_FlagsAligned ==
    \A p \in Procs :
        Probed(p) =>
            /\ Len(code_output[p]) = Len(project_files[p])
            /\ Len(board_order[p]) = Len(project_files[p])
            /\ \A i \in DOMAIN project_files[p] :
                  board_order[p][i] = project_files[p][i].path_on_board

Min(a, b) == IF a <= b THEN a ELSE b

\* C12: when the board returns another number of flags than there are
\* descriptors, only the first min(#flags, #descriptors) positions are
\* paired: a descriptor beyond them is never put, --force or not, the
\* paired ones are put as their flags and --force say, and nothing but a
\* failing transport command stops the run.
C12_MismatchTruncates ==
    \A p \in Procs :
        (Probed(p) /\ Len(code_output[p]) # Len(project_files[p])) =>
            LET n == Min(Len(code_output[p]), Len(project_files[p]))
                at(i) == project_files[p][i].path_on_board
            IN  /\ \A i \in DOMAIN project_files[p] :
                      i > n => PutCount(p, at(i)) = 0
                /\ Len(Puts(p)) <= n
                /\ LoopDone(p) =>
                      \A i \in 1..n :
                          PutCount(p, at(i)) =
                             IF force[p] \/ code_output[p][i] = "1"
                             THEN 1 ELSE 0
                /\ pc[p] \in {"Transferring", "Cleanup", "Configuring",
                              "Confirm", "Done", "Aborted"}
                /\ failed[p] => ~ops[p][Len(ops[p])].ok

\* a forced run over three files got one flag, put the first file only and
\* ended Done
C12_Witness ==
    /\ pc[1] = "Done"
    /\ force[1]
    /\ Len(project_files[1]) = 3
    /\ Len(code_output[1]) = 1
    /\ Len(Puts(1)) = 1
    /\ ~failed[1]

\* a transport command of this run has failed
TransportFailed(p) ==
    \E k \in DOMAIN ops[p] : ~ops[p][k].ok

\* the run of p has not been replaced by a new one in this step
SameRun(p) == ops'[p] # <<>>

\* C13: a failing transport command, the probe or any transfer, is the last
\* device operation of its run: nothing is retried, no later file and no
\* main.py is written, the auto-start file is not written, the scratch
\* directory is gone when the run has ended, and what was put before the
\* failure is still on the device.
C13_TransportFailureFatal ==
    /\ [](\A p \in Procs :
            TransportFailed(p) =>
                /\ ~ops[p][Len(ops[p])].ok
                /\ \A k \in 1..(Len(ops[p]) - 1) : ops[p][k].ok
                /\ pc[p] \in {"Cleanup", "Aborted"}
                /\ pc[p] = "Aborted" => ~compiled_dir.exists
                /\ \A k \in DOMAIN ops[p] :
                      ops[p][k].ok /\ ops[p][k].op = "put"
                          => devFiles[ops[p][k].to] # NoFile)
    /\ [][\A p \in Procs :
            TransportFailed(p) =>
                /\ devFiles' = devFiles
                /\ devHash' = devHash
                /\ autostart' = autostart
                /\ SameRun(p) => ops'[p] = ops[p]]_vars

\* the second transfer of a run failed after the first one succeeded
C13_Witness ==
    /\ pc[1] = "Aborted"
    /\ Len(ops[1]) = 3
    /\ ops[1][1] = Op("run", NoPath, TRUE)
    /\ ops[1][2].op = "put" /\ ops[1][2].ok
    /\ ops[1][3].op = "put" /\ ~ops[1][3].ok
    /\ ops[1][3].to # MainPy
    /\ devFiles[ops[1][2].to] # NoFile
    /\ ~compiled_dir.exists

\* positions of the operations of p that target main.py
MainPyOps(p) == {k \in DOMAIN ops[p] : ops[p][k].to = MainPy}

\* C14: a run that ended Done has written main.py exactly once, as its last
\* device operation, after the probe and after every file transfer; and in
\* no run, whatever its end, is main.py written before a file transfer.
C14_BootstrapOnceLast ==
    \A p \in Procs :
        /\ MainPyOps(p) \subseteq {Len(ops[p])}
        /\ pc[p] = "Done" =>
              /\ MainPyOps(p) = {Len(ops[p])}
              /\ ops[p][Len(ops[p])] = Op("put", MainPy, TRUE)
              /\ Len(ops[p]) >= 2
              /\ ops[p][1] = Op("run", NoPath, TRUE)
              /\ Len(Puts(p)) = Len(ops[p]) - 2
              /\ devFiles[MainPy] = Boot

\* a run that transferred two files ended Done
C14_Witness ==
    /\ pc[1] = "Done"
    /\ Len(Puts(1)) = 2
    /\ Len(ops[1]) = 4
    /\ ops[1][4].to = MainPy

\* the states of a run in progress
Running == {"Init"} \cup Between \cup {"Cleanup", "Configuring", "Confirm"}

\* C15: every run ends, in Done or in Aborted; it is Done only when the
\* probe, the transfer loop, the cleanup and the write of main.py have all
\* succeeded; it becomes Aborted only from Cleanup, or from Configuring,
\* which comes after Cleanup; and a run ends nowhere else.
C15_EveryRunEnds ==
    /\ \A p \in Procs : pc[p] \in Running ~> pc[p] \in Terminal
    /\ [](\A p \in Procs :
            /\ pc[p] \in {"Idle"} \cup Running \cup Terminal
            /\ pc[p] = "Done" =>
                  /\ ~failed[p]
                  /\ \A k \in DOMAIN ops[p] : ops[p][k].ok
                  /\ Probed(p)
                  /\ idx[p] = 1 + Min(Len(project_files[p]),
                                      Len(code_output[p]))
                  /\ MainPyOps(p) # {}
                  /\ ~compiled_dir.exists
            /\ pc[p] = "Aborted" => failed[p] /\ ~compiled_dir.exists)
    /\ [][\A p \in Procs :
            /\ pc[p] # "Aborted" /\ pc'[p] = "Aborted"
                  => pc[p] \in {"Cleanup", "Configuring"}
            /\ pc[p] # "Done" /\ pc'[p] = "Done" => pc[p] = "Confirm"
            /\ pc[p] \in Running /\ pc'[p] # pc[p]
                  => pc'[p] \in Running \cup Terminal]_vars

\* a run has ended Aborted after an earlier run ended Done
C15_Witness ==
    /\ runs = 2
    /\ pc[1] = "Aborted"
    /\ last_run.outcome = "Aborted"
    /\ devFiles[MainPy] = Boot
    /\ MainPyOps(1) = {}

\* C16: what a successful transfer leaves at a descriptor's device path is
\* the compiled output of that descriptor's own source file, the bytes its
\* hash was taken of.
C16_PutsOwnArtifact ==
    \A p \in Procs :
        SameFiles(p) =>
            \A i \in DOMAIN project_files[p] :
                PutCount(p, project_files[p][i].path_on_board) > 0 =>
                    /\ devFiles[project_files[p][i].path_on_board]
                          = OutputOf(p, i)
                    /\ sha1(devFiles[project_files[p][i].path_on_board])
                          = project_files[p][i].hash

\* C17: while a run is between Init and Cleanup and its scratch directory
\* exists, no step of another invocation, its module load or its cleanup
\* after a failed Init, removes that directory.
C17_OwnScratchOnly ==
    [][\A q \in Procs :
          (/\ pc[q] \in Between
           /\ pc'[q] = pc[q]
           /\ compiled_dir.exists)
              => compiled_dir'.exists]_vars

====
